---- MODULE Spec2Model ----
(***************************************************************************)
(* Blind (random) search of SlanyCukr/BIA: Solution.__init__,              *)
(* Solution.random_range and BlindSearchSolution.solve of solutions.py,    *)
(* driven either by the entry point of main.py or by a caller that passes  *)
(* small arbitrary arguments.                                              *)
(*                                                                         *)
(* Floats are records [k, n]: k is "nan", "inf", "ninf" or "fin" (then n   *)
(* is the number).  np.random.rand() is a fraction r / RandDen with        *)
(* r \in 0 .. RandDen-1, and a coordinate is kept as its numerator over    *)
(* RandDen, so random_range is exact integer arithmetic.                   *)
(***************************************************************************)
EXTENDS Integers, Sequences, FiniteSets

VARIABLES
    caller,        \* "none", "main" (main.py) or "test" (any other caller)
    pc,            \* position: start, constructed, gen, loop, ret, done, raised
    err,           \* the exception that ended the run, "none" otherwise
    dimension,     \* self.dimension
    lower_bound,   \* self.lower_bound
    upper_bound,   \* self.upper_bound
    point_count,   \* solve's argument
    params,        \* solve's params: one generated sequence per axis
    i,             \* index of the sampling loop of solve
    best_value,    \* solve's best_value
    best_points,   \* solve's best_points
    evals,         \* history: every call of fnc, its argument and its outcome
    visualized,    \* history: calls of self.visualize, each with its points
    result         \* the value solve returned (k = "none" until it returns)

vars == <<caller, pc, err, dimension, lower_bound, upper_bound, point_count,
          params, i, best_value, best_points, evals, visualized, result>>

---------------------------------------------------------------------------
(* Bounds of the model. *)

\* Largest dimension a test caller passes.
MaxDim == 3
\* Largest point_count a test caller passes.
MaxPoints == 3
\* The number of leading samples the model follows of a run longer than
\* MaxPoints (main.py's).
MaxFollowed == 2
\* A test caller draws at most this many random numbers (dimension * point_count).
MaxCells == 6
\* np.random.rand() yields r / RandDen, r \in 0 .. RandDen-1.
RandDen == 2
\* Finite objective values are 0 .. MaxVal.
MaxVal == 2

(* Arguments of main.py. *)
MainDimension == 2
MainSecondArg == 10
MainThirdArg == -10
MainPointCount == 20000

---------------------------------------------------------------------------
(* Floats. *)

NaN == [k |-> "nan", n |-> 0]
PosInf == [k |-> "inf", n |-> 0]
NegInf == [k |-> "ninf", n |-> 0]
Fin(x) == [k |-> "fin", n |-> x]
NoValue == [k |-> "none", n |-> 0]
Raises == [k |-> "raise", n |-> 0]

\* What an objective can return for one candidate.
ObjValues == {NaN, PosInf, NegInf} \cup {Fin(x) : x \in 0 .. MaxVal}
\* ... or it raises.
ObjOutcomes == ObjValues \cup {Raises}

\* The place of a value on the extended real line (NaN has none: callers
\* exclude it).
Key(v) ==
    CASE v.k = "ninf" -> 0 - 1
      [] v.k = "fin" -> v.n
      [] OTHER -> MaxVal + 1

IsNumber(v) == v.k \in {"ninf", "fin", "inf"}

\* a below b on the extended real line; never with a NaN.
Below(a, b) == IsNumber(a) /\ IsNumber(b) /\ Key(a) < Key(b)

\* a below or equal to b on the extended real line; never with a NaN.
AtMost(a, b) == IsNumber(a) /\ IsNumber(b) /\ Key(a) <= Key(b)

\* a <= b in place of a < b.
FloatLe(a, b) == AtMost(a, b)

\* a > b in place of a < b.
FloatGt(a, b) == Below(b, a)

\* not (a >= b) in place of a < b: true when either side is NaN.
FloatNotGe(a, b) == ~ AtMost(b, a)

\* a < b of IEEE floats, as Python evaluates it: false when either side is NaN.
FloatLt(a, b) ==
    /\ a.k # "nan"
    /\ b.k # "nan"
    /\ \/ a.k = "ninf" /\ b.k # "ninf"
       \/ b.k = "inf" /\ a.k # "inf"
       \/ a.k = "fin" /\ b.k = "fin" /\ a.n < b.n

---------------------------------------------------------------------------
(* Solution.random_range *)

Min2(a, b) == IF a < b THEN a ELSE b

\* The entries of a generated axis that the model holds, and the iterations
\* of the sampling loop that it follows.
Held(n) == IF n <= MaxPoints THEN n ELSE Min2(n, MaxFollowed)

\* (value_max - value_min) * rand(n) + value_min, each entry as a numerator
\* over RandDen; rs are the numerators of rand(n).
RandomRange(n, value_min, value_max, rs) ==
    [j \in 1 .. Held(n) |-> (value_max - value_min) * rs[j] + value_min * RandDen]

---------------------------------------------------------------------------
(* Steps of solve. *)

\* The argument of iteration idx: the idx-th entry of every axis.
Arg(ps, idx) == [x \in 1 .. Len(ps) |-> ps[x][idx + 1]]

\* A tie counts as an improvement.
ImprovesOrTies(v, best) == FloatLe(v, best)

\* The condition of the if.
Improves(v, best) == FloatLt(v, best)

\* The assignment without its if.
BestValueAlways(v, best) == v

\* best_value after the if.
NextBestValue(v, best) == IF Improves(v, best) THEN v ELSE best

\* The tuple appended to best_points needs arg[0] and arg[1].
TupleFails(arg) == Len(arg) < 2

\* best_points after the if (when the tuple can be built).
NextBestPoints(arg, v, best, pts) ==
    IF Improves(v, best) THEN Append(pts, <<arg[1], arg[2], v>>) ELSE pts

\* Any dimension from 2 on is visualized.
VisualizeFrom2(d) == d >= 2

\* The condition of the call of self.visualize.
ShouldVisualize(d) == d = 2

\* The failure is caught and the loop goes on.
FailureSwallowed == "loop"

\* Where solve is after fnc raised: nothing catches it.
AfterObjectiveFailure == "raised"

\* The objective is a function of its argument: an argument evaluated before
\* has the outcome it had.
Consistent(arg, o) == \A j \in 1 .. Len(evals) : evals[j].arg = arg => evals[j].out = o

---------------------------------------------------------------------------
Init ==
    /\ caller = "none"
    /\ pc = "start"
    /\ err = "none"
    /\ dimension = 0
    /\ lower_bound = 0
    /\ upper_bound = 0
    /\ point_count = 0
    /\ params = <<>>
    /\ i = 0
    /\ best_value = NoValue
    /\ best_points = <<>>
    /\ evals = <<>>
    /\ visualized = <<>>
    /\ result = NoValue

\* Solution.__init__(dimension, lower_bound, upper_bound); numpy.zeros raises
\* ValueError on a negative dimension, after the three assignments.
Construct(who, d, second, third) ==
    /\ pc = "start"
    /\ caller' = who
    /\ dimension' = d
    /\ lower_bound' = second
    /\ upper_bound' = third
    /\ IF d < 0
         THEN pc' = "raised" /\ err' = "ValueError"
         ELSE pc' = "constructed" /\ err' = err
    /\ UNCHANGED <<point_count, params, i, best_value, best_points, evals,
                   visualized, result>>

\* main.py: BlindSearchSolution(2, 10, -10)
MainConstruct ==
    Construct("main", MainDimension, MainSecondArg, MainThirdArg)

\* The bounds a test caller passes: lower < upper, lower > upper, lower = upper.
TestBounds == {<<-1, 1>>, <<1, -1>>, <<1, 1>>}

\* Any other caller of the constructor.
TestConstruct ==
    \E d \in -1 .. MaxDim, b \in TestBounds :
        Construct("test", d, b[1], b[2])

\* The call of solve: best_points = [], params = [].
CallSolve(n) ==
    /\ pc = "constructed"
    /\ point_count' = n
    /\ params' = <<>>
    /\ best_points' = <<>>
    /\ pc' = "gen"
    /\ UNCHANGED <<caller, err, dimension, lower_bound, upper_bound, i,
                   best_value, evals, visualized, result>>

\* main.py: solution.solve(20000, sphere)
MainSolve ==
    /\ caller = "main"
    /\ CallSolve(MainPointCount)

TestSolve ==
    /\ caller = "test"
    /\ \E n \in -1 .. MaxPoints :
        /\ dimension * n <= MaxCells
        /\ CallSolve(n)

\* One iteration of "for x in range(self.dimension)": one call of
\* random_range; np.random.rand raises ValueError on a negative count.
GenAxis ==
    /\ pc = "gen"
    /\ Len(params) < dimension
    /\ IF point_count < 0
         THEN /\ pc' = "raised"
              /\ err' = "ValueError"
              /\ params' = params
         ELSE /\ \E rs \in [1 .. Held(point_count) -> 0 .. RandDen - 1] :
                    params' = Append(params,
                        RandomRange(point_count, lower_bound, upper_bound, rs))
              /\ UNCHANGED <<pc, err>>
    /\ UNCHANGED <<caller, dimension, lower_bound, upper_bound, point_count,
                   i, best_value, best_points, evals, visualized, result>>

\* best_value = np.inf, once every axis is generated.
StartSearch ==
    /\ pc = "gen"
    /\ Len(params) >= dimension
    /\ best_value' = PosInf
    /\ i' = 0
    /\ pc' = "loop"
    /\ UNCHANGED <<caller, err, dimension, lower_bound, upper_bound,
                   point_count, params, best_points, evals, visualized, result>>

\* One iteration of "for i in range(point_count)", among those the model
\* follows.
Iterate ==
    /\ pc = "loop"
    /\ i < point_count
    /\ i < Held(point_count)
    /\ LET arg == Arg(params, i) IN
       \E o \in ObjOutcomes :
         /\ Consistent(arg, o)
         /\ evals' = Append(evals, [arg |-> arg, out |-> o])
         /\ IF o = Raises
              THEN /\ pc' = AfterObjectiveFailure
                   /\ err' = "ObjectiveFailure"
                   /\ UNCHANGED <<i, best_value, best_points>>
              ELSE IF Improves(o, best_value) /\ TupleFails(arg)
              THEN /\ pc' = "raised"
                   /\ err' = "IndexError"
                   /\ best_value' = NextBestValue(o, best_value)
                   /\ UNCHANGED <<i, best_points>>
              ELSE /\ best_value' = NextBestValue(o, best_value)
                   /\ best_points' = NextBestPoints(arg, o, best_value, best_points)
                   /\ i' = i + 1
                   /\ UNCHANGED <<pc, err>>
    /\ UNCHANGED <<caller, dimension, lower_bound, upper_bound, point_count,
                   params, visualized, result>>

LoopDone == pc = "loop" /\ i >= point_count

\* if self.dimension == 2: self.visualize(best_points, fnc)
Visualize ==
    /\ LoopDone
    /\ ShouldVisualize(dimension)
    /\ visualized' = Append(visualized, best_points)
    /\ pc' = "ret"
    /\ UNCHANGED <<caller, err, dimension, lower_bound, upper_bound,
                   point_count, params, i, best_value, best_points, evals, result>>

\* return best_value
Return ==
    /\ \/ pc = "ret"
       \/ LoopDone /\ ~ ShouldVisualize(dimension)
    /\ result' = best_value
    /\ pc' = "done"
    /\ UNCHANGED <<caller, err, dimension, lower_bound, upper_bound,
                   point_count, params, i, best_value, best_points, evals,
                   visualized>>

Next ==
    \/ MainConstruct
    \/ TestConstruct
    \/ MainSolve
    \/ TestSolve
    \/ GenAxis
    \/ StartSearch
    \/ Iterate
    \/ Visualize
    \/ Return

Spec == Init /\ [][Next]_vars

---------------------------------------------------------------------------
(* What the properties speak of. *)

\* solve has been called (the constructor did not raise).
SolveCalled ==
    \/ pc \in {"gen", "loop", "ret", "done"}
    \/ pc = "raised" /\ dimension >= 0

\* The configuration of the run is valid.
ValidConfig ==
    /\ SolveCalled
    /\ dimension >= 1
    /\ lower_bound < upper_bound
    /\ point_count >= 1

\* Between two iterations of the sampling loop, or after it.
AtIterationEnd == pc \in {"loop", "ret", "done"}

\* At least one iteration has completed, or the loop is over.
AfterSomeIteration == (pc = "loop" /\ i >= 1) \/ pc \in {"ret", "done"}

Outs(es) == [j \in 1 .. Len(es) |-> es[j].out]

Values(pts) == [j \in 1 .. Len(pts) |-> pts[j][3]]

NotNaN(v) == v # NaN

Front(sq) == SubSeq(sq, 1, Len(sq) - 1)

Decreasing(vs) == \A j \in 1 .. Len(vs) - 1 : Below(vs[j + 1], vs[j])

\* The least of +infinity and the values vs, none of them NaN.
RECURSIVE RunMin(_)
RunMin(vs) ==
    IF vs = <<>> THEN PosInf
    ELSE LET b == RunMin(Front(vs))
             v == vs[Len(vs)]
         IN IF Below(v, b) THEN v ELSE b

\* The values of vs (none of them NaN) below +infinity and below every
\* value before them.
RECURSIVE ImprovingValues(_)
ImprovingValues(vs) ==
    IF vs = <<>> THEN <<>>
    ELSE LET f == Front(vs)
             v == vs[Len(vs)]
         IN IF Below(v, RunMin(f))
              THEN Append(ImprovingValues(f), v)
              ELSE ImprovingValues(f)

\* The evaluations whose value is strictly less than every earlier value,
\* each with its candidate's coordinates and its value.
RECURSIVE ExpectedTrace(_)
ExpectedTrace(es) ==
    IF es = <<>> THEN <<>>
    ELSE LET f == Front(es)
             e == es[Len(es)]
         IN IF \A k \in 1 .. Len(f) : Below(e.out, f[k].out)
              THEN Append(ExpectedTrace(f), e.arg \o <<e.out>>)
              ELSE ExpectedTrace(f)

AllFinite(es) == \A j \in 1 .. Len(es) : es[j].out.k = "fin"

NoFailure(es) == \A j \in 1 .. Len(es) : es[j].out # Raises

---------------------------------------------------------------------------
(* Properties. *)

\* C1 (as stated): under a valid configuration, after every completed
\* iteration and when the loop has finished, best_points is non-empty and its
\* values are strictly decreasing.
CE_C1 ==
    (ValidConfig /\ AfterSomeIteration) =>
        /\ best_points # <<>>
        /\ Decreasing(Values(best_points))

\* C1 (amended): under a valid configuration, after every completed
\* iteration and when the loop has finished, the values of best_points are
\* strictly decreasing, and best_points is non-empty exactly when some value
\* evaluated so far is below +infinity (and so not NaN).
Thm_C1 ==
    (ValidConfig /\ AtIterationEnd) =>
        /\ Decreasing(Values(best_points))
        /\ best_points # <<>> <=>
               \E j \in 1 .. Len(evals) : Below(evals[j].out, PosInf)

\* A finished valid run with at least two improvements and an evaluation
\* that did not improve.
Wit_C1 ==
    /\ ValidConfig
    /\ pc = "done"
    /\ Len(best_points) >= 2
    /\ Len(evals) > Len(best_points)

\* C2 (as stated): under a valid configuration the returned value is <=
\* the value of every evaluated candidate and equals one of them.
CE_C2 ==
    (ValidConfig /\ pc = "done") =>
        /\ \A j \in 1 .. Len(evals) : AtMost(result, evals[j].out)
        /\ \E j \in 1 .. Len(evals) : result = evals[j].out

\* C2 (amended): under a valid configuration the returned value is <= the
\* value of every evaluated candidate whose value is not NaN, and it equals
\* the value of one of the point_count candidates whenever some value is not
\* NaN.
Thm_C2 ==
    (ValidConfig /\ pc = "done") =>
        /\ Len(evals) = point_count
        /\ \A j \in 1 .. Len(evals) :
               NotNaN(evals[j].out) => AtMost(result, evals[j].out)
        /\ (\E j \in 1 .. Len(evals) : NotNaN(evals[j].out)) =>
               \E j \in 1 .. Len(evals) : result = evals[j].out

\* A finished valid run whose minimum is the second of three evaluations.
Wit_C2 ==
    /\ ValidConfig
    /\ pc = "done"
    /\ Len(evals) = 3
    /\ result = evals[2].out
    /\ Below(evals[2].out, evals[1].out)
    /\ Below(evals[2].out, evals[3].out)

\* C3: between iterations and at the end of solve, best_value is the value
\* of the last element of best_points, and +infinity while best_points is
\* empty.
Thm_C3 ==
    AtIterationEnd =>
        IF best_points = <<>>
          THEN best_value = PosInf
          ELSE best_value = best_points[Len(best_points)][3]

\* Two iterations done, the second of which did not improve on the first.
Wit_C3 ==
    /\ pc = "loop"
    /\ i = 2
    /\ Len(best_points) = 1
    /\ evals[2].out # best_value
    /\ evals[1].out = best_value

\* C4 (as stated, for a call whose only defect is point_count <= 0): no
\* objective evaluation, no returned value and no call of visualize.
CE_C4 ==
    (SolveCalled /\ dimension >= 1 /\ lower_bound < upper_bound
                 /\ point_count <= 0) =>
        /\ evals = <<>>
        /\ result = NoValue
        /\ visualized = <<>>

\* C5 (as stated, for finite objective values): under a valid configuration
\* solve does not fail, and when it is done best_points is the evaluations
\* strictly below every earlier one, each with its coordinates and value,
\* and the returned value is the least value.
CE_C5 ==
    (ValidConfig /\ AllFinite(evals)) =>
        /\ pc # "raised"
        /\ pc = "done" =>
             /\ best_points = ExpectedTrace(evals)
             /\ result = RunMin(Outs(evals))

Thm_C7 ==
    \A j \in 1 .. Len(evals) :
        evals[j].out = Raises =>
            /\ j = Len(evals)
            /\ j = i + 1
            /\ pc = "raised"
            /\ err = "ObjectiveFailure"
            /\ result = NoValue
            /\ visualized = <<>>
            /\ ~ ENABLED Next

\* The objective failed on the third candidate, after an improvement.
Wit_C7 ==
    /\ pc = "raised"
    /\ err = "ObjectiveFailure"
    /\ Len(evals) = 3
    /\ best_points # <<>>

\* C8: a NaN value never improves: no element of best_points has a NaN
\* value, best_value is never NaN, and best_value and the values of
\* best_points are those of the run with the NaN evaluations left out.
Thm_C8 ==
    /\ best_value # NaN
    /\ \A j \in 1 .. Len(best_points) : best_points[j][3] # NaN
    /\ AtIterationEnd =>
         /\ best_value = RunMin(SelectSeq(Outs(evals), NotNaN))
         /\ Values(best_points) = ImprovingValues(SelectSeq(Outs(evals), NotNaN))

\* A NaN between two improving evaluations.
Wit_C8 ==
    /\ pc = "done"
    /\ Len(evals) = 3
    /\ evals[2].out = NaN
    /\ Len(best_points) = 2

\* C9 (as stated): main.py's configuration is dimension 2, lower bound -10,
\* upper bound 10, 20000 points, with lower_bound < upper_bound, and every
\* generated coordinate lies within [lower_bound, upper_bound].
CE_C9 ==
    (caller = "main" /\ pc # "start") =>
        /\ dimension = 2
        /\ lower_bound = 0 - 10
        /\ upper_bound = 10
        /\ lower_bound < upper_bound
        /\ SolveCalled => point_count = 20000
        /\ \A x \in 1 .. Len(params) : \A j \in 1 .. Len(params[x]) :
               /\ lower_bound * RandDen <= params[x][j]
               /\ params[x][j] <= upper_bound * RandDen

\* C10 (as stated): under a valid configuration with an objective that does
\* not fail, the loop does not fail, evaluation j is of the candidate made of
\* the j-th entry of every axis, and the loop ends after point_count
\* evaluations.
CE_C10 ==
    (ValidConfig /\ NoFailure(evals)) =>
        /\ pc # "raised"
        /\ AtIterationEnd =>
             /\ Len(evals) = i
             /\ \A j \in 1 .. Len(evals) : evals[j].arg = Arg(params, j - 1)
        /\ pc \in {"ret", "done"} => Len(evals) = point_count

====
